---- MODULE Spec2Model ----
(***************************************************************************)
(* Model of trendradar/ai/client.py: class AIClient.                       *)
(*                                                                         *)
(* State: the client's stored fields (self), the process environment      *)
(* (os.environ) and, per caller, the locals of one running                 *)
(* _call_api_with_curl invocation together with what it has sent, slept    *)
(* and finally returned or raised.                                         *)
(*                                                                         *)
(* Encodings.                                                              *)
(*  - An optional value (a dict key that may be missing, an environment    *)
(*    variable that may be unset, a Python None result) is a sequence of   *)
(*    length 0 or 1: None == <<>>, Some(x) == <<x>>.                       *)
(*  - A keyword argument value is a tagged record, PyInt(n) or PyNone, so  *)
(*    that the arithmetic and comparisons of lines 92 and 98 can fail the  *)
(*    way Python's do on a non-number.                                     *)
(*  - temperature and top_p are kept in hundredths (100 is 1.0, 85 is     *)
(*    0.85).                                                               *)
(*  - The messages the source formats in Chinese are given in English;     *)
(*    the diagnostic a failure carries is a record of the fields the       *)
(*    f-string interpolates.                                               *)
(*  - stdout of curl is represented by its parse: either not JSON, or the  *)
(*    JSON object's "error" and "choices" members.                         *)
(***************************************************************************)
EXTENDS Integers, Sequences, FiniteSets, TLC

VARIABLES
    self,       \* the AIClient instance's attributes (lines 32-38)
    environ,    \* os.environ: LLM_API_URL, AUTH_TOKEN, AI_API_KEY
    call,       \* per caller: the running chat call's locals and its trace
    lastDelay   \* value of the local `delay` when the latest finished call ended (0: no call yet)

vars == <<self, environ, call, lastDelay>>

-----------------------------------------------------------------------------
(* Optional values and Python truthiness *)

None == <<>>
Some(x) == <<x>>

\* dict.get(key, default) on a record of optional members
DictGet(d, key, default) == IF d[key] = None THEN default ELSE d[key][1]

\* os.getenv(key, default) / os.environ.get(key, default)
Getenv(env, key, default) == IF env[key] = None THEN default ELSE env[key][1]

\* truthiness of a str: the empty string is falsy
Truthy(s) == s # ""

\* truthiness of an optional str (None is falsy)
TruthyOpt(o) == o # None /\ Truthy(o[1])

PyInt(n) == [t |-> "int", v |-> n]
PyNone == [t |-> "NoneType", v |-> 0]

Min(a, b) == IF a < b THEN a ELSE b

-----------------------------------------------------------------------------
(* Bounds of the model *)

\* largest NUM_RETRIES / num_retries explored (6 attempts: sleeps 2,4,8,16,16)
MaxNumRetries == 5

(* Program constants *)

DefaultApiUrl == "https://ai-llm-gateway.amap.com/open_api/v1/chat"
DefaultAuthToken == "1Zx8EvYhC8FsyQXLqwKgXVRD"
FixedModel == "qwen3-max-preview"
DefaultModel == "deepseek/deepseek-chat"
DefaultTemperature == 100
DefaultMaxTokens == 5000
DefaultTimeout == 120
DefaultNumRetries == 2
TopP == 85
FallbackMaxTokens == 5000
InitialDelay == 2
max_delay == 16
ConnectTimeout == 10
RunTimeoutSlack == 10

-----------------------------------------------------------------------------
(* Inputs *)

Callers == {1, 2}
\* callers that take steps in the sequential specification
SeqCallers == {1}

EnvUrls == {None, Some("http://alt.example/chat")}
EnvAuthTokens == {None, Some(""), Some("tokA")}
EnvApiKeys == {None, Some("keyB")}

Environs == [LLM_API_URL : EnvUrls, AUTH_TOKEN : EnvAuthTokens, AI_API_KEY : EnvApiKeys]

NoConfig == [MODEL |-> None, API_KEY |-> None, API_BASE |-> None, TEMPERATURE |-> None,
             MAX_TOKENS |-> None, TIMEOUT |-> None, NUM_RETRIES |-> None]

\* the config dicts a client is constructed from
Configs ==
    { NoConfig,
      [NoConfig EXCEPT !.API_KEY = Some("keyC"), !.TIMEOUT = Some(5), !.NUM_RETRIES = Some(0)],
      [NoConfig EXCEPT !.API_KEY = Some(""), !.NUM_RETRIES = Some(MaxNumRetries),
                       !.MAX_TOKENS = Some(0)],
      [NoConfig EXCEPT !.MODEL = Some("gpt-x"), !.API_KEY = Some("keyC"),
                       !.API_BASE = Some("http://base.example"),
                       !.TEMPERATURE = Some(70), !.MAX_TOKENS = Some(200),
                       !.TIMEOUT = Some(30), !.NUM_RETRIES = Some(1)],
      [NoConfig EXCEPT !.MAX_TOKENS = Some(-1), !.NUM_RETRIES = Some(-1)] }

NoKwargs == [temperature |-> None, max_tokens |-> None, num_retries |-> None]

\* the **kwargs of a chat call
KwargsSet ==
    { NoKwargs,
      [NoKwargs EXCEPT !.num_retries = Some(PyInt(0))],
      [NoKwargs EXCEPT !.num_retries = Some(PyInt(3)), !.max_tokens = Some(PyInt(64))],
      [NoKwargs EXCEPT !.num_retries = Some(PyInt(MaxNumRetries)),
                       !.temperature = Some(PyInt(20))],
      [NoKwargs EXCEPT !.num_retries = Some(PyInt(-1)), !.max_tokens = Some(PyInt(0))],
      [NoKwargs EXCEPT !.num_retries = Some(PyInt(-2))],
      [NoKwargs EXCEPT !.max_tokens = Some(PyNone)],
      [NoKwargs EXCEPT !.num_retries = Some(PyNone)] }

MessagesSet == { <<[role |-> "user", content |-> "hello"]>> }

-----------------------------------------------------------------------------
(* What one run of curl can end in *)

Choice(content) == [message |-> Some([content |-> content])]
ChoiceNoMessage == [message |-> None]

\* subprocess.run raised instead of completing
Raised(kind, text) == [kind |-> kind, json |-> FALSE, text |-> text, error |-> None, choices |-> None]
\* curl exited 0 with a stdout that is not JSON
NonJson(text) == [kind |-> "completed", json |-> FALSE, text |-> text, error |-> None, choices |-> None]
\* curl exited 0 with a JSON object on stdout
Json(error, choices) == [kind |-> "completed", json |-> TRUE, text |-> "{...}", error |-> error, choices |-> choices]

ErrorDict(message) == [dict |-> TRUE, message |-> message]
ErrorNotDict == [dict |-> FALSE, message |-> None]

TransportOutcomes == { Raised("CalledProcessError", "curl: (7) connect failed"),
                       Raised("CalledProcessError", "curl: (22) http error") }
TimeoutOutcomes == { Raised("TimeoutExpired", "") }
NonJsonOutcomes == { NonJson("<html>502</html>"), NonJson("") }
ErrorPayloadOutcomes ==
    { Json(Some(ErrorDict(Some("X"))), None),
      Json(Some(ErrorDict(None)), None),
      Json(Some(ErrorDict(Some("quota"))), Some(<<Choice(Some("from error reply"))>>)) }
EmptyOutcomes ==
    { Json(None, None),
      Json(None, Some(<<>>)),
      Json(None, Some(<<ChoiceNoMessage>>)),
      Json(None, Some(<<Choice(None)>>)),
      Json(None, Some(<<Choice(Some(""))>>)),
      Json(None, Some(<<Choice(Some("")), Choice(Some("second"))>>)) }
ValidOutcomes ==
    { Json(None, Some(<<Choice(Some("hi there"))>>)),
      Json(None, Some(<<Choice(Some("first")), Choice(Some("second"))>>)) }
OtherOutcomes ==
    { Raised("OSError", "curl: not found"),
      Json(Some(ErrorNotDict), None) }

Outcomes == TransportOutcomes \cup TimeoutOutcomes \cup NonJsonOutcomes
            \cup ErrorPayloadOutcomes \cup EmptyOutcomes \cup ValidOutcomes
            \cup OtherOutcomes

-----------------------------------------------------------------------------
(* AIClient.__init__ *)

InitApiKey(config, env) ==
    IF TruthyOpt(config.API_KEY) THEN config.API_KEY[1]
    ELSE Getenv(env, "AI_API_KEY", "")

Construct(config, env) ==
    [ model       |-> DictGet(config, "MODEL", DefaultModel),
      api_key     |-> InitApiKey(config, env),
      api_base    |-> DictGet(config, "API_BASE", ""),
      temperature |-> DictGet(config, "TEMPERATURE", DefaultTemperature),
      max_tokens  |-> DictGet(config, "MAX_TOKENS", DefaultMaxTokens),
      timeout     |-> DictGet(config, "TIMEOUT", DefaultTimeout),
      num_retries |-> DictGet(config, "NUM_RETRIES", DefaultNumRetries) ]

-----------------------------------------------------------------------------
(* _call_api_with_curl: what is computed before the loop *)

\* faulty variant: the environment's LLM_API_URL is not consulted
ResolveApiUrlDefaultOnly(env) == DefaultApiUrl

ResolveApiUrl(env) == Getenv(env, "LLM_API_URL", DefaultApiUrl)

\* faulty variant: AUTH_TOKEN is read without a default, so that the chain
\* goes on to AI_API_KEY and the stored key when it is unset
AuthTokenNoDefault(env) == Getenv(env, "AUTH_TOKEN", "")

\* `os.getenv("AUTH_TOKEN", "1Zx8EvYhC8FsyQXLqwKgXVRD")` (line 78)
AuthTokenOrDefault(env) == Getenv(env, "AUTH_TOKEN", DefaultAuthToken)

\* `os.getenv("AI_API_KEY") or self.api_key` (lines 79-80)
ApiKeyOrStored(env, api_key) ==
    IF TruthyOpt(env["AI_API_KEY"]) THEN env["AI_API_KEY"][1] ELSE api_key

\* the `or` chain of lines 77-81 evaluated against one environment
ResolveAuthToken(env, api_key) ==
    LET a == AuthTokenOrDefault(env)
    IN  IF Truthy(a) THEN a ELSE ApiKeyOrStored(env, api_key)

\* kwargs.get(key, default)
KwGet(kwargs, key, default) == IF kwargs[key] = None THEN PyInt(default) ELSE kwargs[key][1]

\* faulty variant: the value is passed on as it is
PayloadMaxTokensRaw(max_tokens) == max_tokens

\* `max_tokens if max_tokens > 0 else 5000`
PayloadMaxTokens(max_tokens) == IF max_tokens > 0 THEN max_tokens ELSE FallbackMaxTokens

BuildPayload(messages, temperature, max_tokens) ==
    [ model       |-> FixedModel,
      messages    |-> messages,
      temperature |-> temperature,
      top_p       |-> TopP,
      max_tokens  |-> PayloadMaxTokens(max_tokens.v) ]

\* faulty variant: num_retries taken as the total number of attempts
MaxRetriesNoExtra(num_retries) == num_retries

\* `kwargs.get("num_retries", self.num_retries) + 1`
MaxRetries(num_retries) == num_retries + 1

\* faulty variant: subprocess.run is given the same limit as curl
CommandNoSlack(api_url, auth_token, payload, timeout) ==
    [ url             |-> api_url,
      content_type    |-> "Content-Type: application/json",
      authorization   |-> "Authorization: Bearer " \o auth_token,
      data            |-> payload,
      connect_timeout |-> ConnectTimeout,
      max_time        |-> timeout,
      run_timeout     |-> timeout ]

\* the curl command of one attempt and the timeout of subprocess.run
Command(api_url, auth_token, payload, timeout) ==
    [ url             |-> api_url,
      content_type    |-> "Content-Type: application/json",
      authorization   |-> "Authorization: Bearer " \o auth_token,
      data            |-> payload,
      connect_timeout |-> ConnectTimeout,
      max_time        |-> timeout,
      run_timeout     |-> timeout + RunTimeoutSlack ]

-----------------------------------------------------------------------------
(* _call_api_with_curl: one pass through the loop body *)

\* faulty variant: the error member is not looked at
HasErrorNever(o) == FALSE

HasError(o) == o.error # None

ChoicesOf(o) == DictGet(o, "choices", <<>>)

\* choices[0].get("message", {}).get("content")
FirstContent(choices) ==
    LET message == DictGet(choices[1], "message", [content |-> None])
    IN  message.content

\* `not choices or not choices[0].get("message", {}).get("content")`
IsEmptyResponse(o) ==
    \/ ChoicesOf(o) = <<>>
    \/ ~TruthyOpt(FirstContent(ChoicesOf(o)))

\* faulty variant: the last choice is returned instead of the first
ReturnedContentLastChoice(o) == ChoicesOf(o)[Len(ChoicesOf(o))].message[1].content[1]

\* choices[0]["message"]["content"]
ReturnedContent(o) == ChoicesOf(o)[1].message[1].content[1]

\* response_data["error"].get("message", ...)
ErrorMessage(o) == DictGet(o.error[1], "message", "API returned unknown error")

\* faulty variant: off by one, the last attempt counts as having one left
HasAttemptsLeftOffByOne(attempt, max_retries) == attempt < max_retries

\* `attempt + 1 < max_retries` (line 132)
HasAttemptsLeft(attempt, max_retries) == attempt + 1 < max_retries

\* faulty variant: off by one, the last attempt is not recognised
IsLastAttemptOffByOne(attempt, max_retries) == attempt = max_retries

\* `attempt + 1 == max_retries` (lines 147, 153, 160, 166)
IsLastAttempt(attempt, max_retries) == attempt + 1 = max_retries

\* The way control leaves the try block for outcome o: "return",
\* "retry_error" (the sleep and continue of lines 132-135) or the name of the
\* except clause that catches what was raised.
Handler(o, attempt, max_retries) ==
    IF o.kind = "CalledProcessError" THEN "CalledProcessError"
    ELSE IF o.kind = "TimeoutExpired" THEN "TimeoutExpired"
    ELSE IF o.kind # "completed" THEN "Exception"
    ELSE IF ~o.json THEN "JSONDecodeError"
    ELSE IF HasError(o) THEN
        IF ~o.error[1].dict THEN "Exception"        \* AttributeError on .get
        ELSE IF HasAttemptsLeft(attempt, max_retries) THEN "retry_error"
        ELSE "Exception"                             \* ValueError of line 136, caught at 164
    ELSE IF IsEmptyResponse(o) THEN "Exception"      \* ValueError of line 141, caught at 164
    ELSE "return"

\* str(e) of the exception the `except Exception` clause catches
CaughtText(o) ==
    IF o.kind # "completed" THEN o.text
    ELSE IF HasError(o) THEN
        IF o.error[1].dict THEN "API call failed: " \o ErrorMessage(o)
        ELSE "'str' object has no attribute 'get'"
    ELSE "Empty or invalid response from LLM"

\* faulty variant: the zero-based loop index is reported as the attempt number
ErrorInfoZeroBased(handler, o, attempt, max_retries) ==
    [ type    |-> "ValueError",
      handler |-> handler,
      attempt |-> attempt,
      total   |-> max_retries,
      detail  |-> IF handler = "Exception" THEN CaughtText(o)
                  ELSE IF handler = "TimeoutExpired" THEN ""
                  ELSE o.text ]

\* error_info of the except clauses, as the fields it interpolates
ErrorInfo(handler, o, attempt, max_retries) ==
    [ type    |-> "ValueError",
      handler |-> handler,
      attempt |-> attempt + 1,
      total   |-> max_retries,
      detail  |-> IF handler = "Exception" THEN CaughtText(o)
                  ELSE IF handler = "TimeoutExpired" THEN ""
                  ELSE o.text ]

PostLoopError ==
    [type |-> "ValueError", handler |-> "postloop", attempt |-> 0, total |-> 0,
     detail |-> "still failing after the maximum number of retries"]

TypeErrorRaised ==
    [type |-> "TypeError", handler |-> "none", attempt |-> 0, total |-> 0,
     detail |-> "unsupported operand for NoneType"]

\* faulty variant: the doubling is not capped
NextDelayUncapped(delay) == delay * 2

\* `delay = min(delay * 2, max_delay)`
NextDelay(delay) == Min(delay * 2, max_delay)

-----------------------------------------------------------------------------
(* State of one caller *)

IdleCall ==
    [ pc          |-> "idle",
      messages    |-> None,
      kwargs      |-> None,
      env0        |-> None,     \* os.environ as it was when the call was entered
      api_url     |-> None,
      auth_token  |-> None,
      payload     |-> None,
      max_retries |-> 0,
      attempt     |-> 0,
      delay       |-> 0,
      requests    |-> 0,        \* number of times subprocess.run was invoked
      request     |-> None,     \* the command of the latest invocation
      sleeps      |-> <<>>,     \* arguments of the time.sleep calls, in order
      outcome     |-> None,     \* what the latest invocation ended in (None while it runs)
      result      |-> None,     \* the value returned to the caller
      exc         |-> None,     \* the exception raised to the caller
      validated   |-> None ]    \* the latest return value of validate_config

Init ==
    /\ environ \in Environs
    /\ \E config \in Configs : self = Construct(config, environ)
    /\ call = [c \in Callers |-> IdleCall]
    /\ lastDelay = 0

-----------------------------------------------------------------------------
(* chat(messages, **kwargs), lines 74-102, up to the first pass of the loop.
   The environment is read by separate os.getenv calls: LLM_API_URL at line
   75, AUTH_TOKEN at line 78 and, only when that value is falsy, AI_API_KEY at
   line 79; other threads can run between them. A call is at pc
   "reading_token" after line 75 and at "reading_key" after a falsy line 78.
   Lines 84-100 read only the call's arguments and the client's attributes. *)

\* lines 74-75: the call is entered and LLM_API_URL is read
Entered(messages, kwargs) ==
    [IdleCall EXCEPT !.pc = "reading_token",
                     !.messages = Some(messages),
                     !.kwargs = Some(kwargs),
                     !.env0 = Some(environ),
                     !.api_url = Some(ResolveApiUrl(environ))]

(* Lines 84-102 for call record k, once auth_token is known. A TypeError of
   line 92 or 98 leaves the function before the loop; an empty
   range(max_retries) leaves it through line 171. *)
Begin(k, auth_token, delay0) ==
    LET messages    == k.messages[1]
        kwargs      == k.kwargs[1]
        temperature == KwGet(kwargs, "temperature", self.temperature)
        max_tokens  == KwGet(kwargs, "max_tokens", self.max_tokens)
        num_retries == KwGet(kwargs, "num_retries", self.num_retries)
        started     == [k EXCEPT !.auth_token = Some(auth_token)]
    IN  IF max_tokens.t # "int" THEN
            [started EXCEPT !.pc = "raised", !.exc = Some(TypeErrorRaised)]
        ELSE IF num_retries.t # "int" THEN
            [started EXCEPT !.pc = "raised", !.exc = Some(TypeErrorRaised),
                            !.payload = Some(BuildPayload(messages, temperature, max_tokens))]
        ELSE LET running ==
                   [started EXCEPT !.payload = Some(BuildPayload(messages, temperature, max_tokens)),
                                   !.max_retries = MaxRetries(num_retries.v),
                                   !.delay = delay0]
             IN  IF running.max_retries > 0
                 THEN [running EXCEPT !.pc = "attempting"]
                 ELSE [running EXCEPT !.pc = "raised", !.exc = Some(PostLoopError)]

\* faulty variant: the delay is an attribute that survives the call
EnterLoopKeepingDelay(k, auth_token) ==
    Begin(k, auth_token, IF lastDelay > 0 THEN lastDelay ELSE InitialDelay)

\* lines 84-102 with `delay = 2` (line 99)
EnterLoop(k, auth_token) == Begin(k, auth_token, InitialDelay)

\* faulty variant: the overrides of a call are written back to the client
StartChatStoringOverrides(c, messages, kwargs) ==
    /\ call[c].pc = "idle"
    /\ call' = [call EXCEPT ![c] = Entered(messages, kwargs)]
    /\ self' = [self EXCEPT !.temperature = KwGet(kwargs, "temperature", self.temperature).v,
                            !.max_tokens = KwGet(kwargs, "max_tokens", self.max_tokens).v,
                            !.num_retries = KwGet(kwargs, "num_retries", self.num_retries).v]
    /\ UNCHANGED <<environ, lastDelay>>

StartChat(c, messages, kwargs) ==
    /\ call[c].pc = "idle"
    /\ call' = [call EXCEPT ![c] = Entered(messages, kwargs)]
    /\ UNCHANGED <<self, environ, lastDelay>>

\* line 78, and lines 84-102 when the value read is truthy
ReadAuthToken(c) ==
    /\ call[c].pc = "reading_token"
    /\ LET a == AuthTokenOrDefault(environ)
       IN  call' = [call EXCEPT ![c] = IF Truthy(a) THEN EnterLoop(call[c], a)
                                        ELSE [call[c] EXCEPT !.pc = "reading_key"]]
    /\ UNCHANGED <<self, environ, lastDelay>>

\* lines 79-80, then lines 84-102
ReadApiKey(c) ==
    /\ call[c].pc = "reading_key"
    /\ call' = [call EXCEPT ![c] = EnterLoop(call[c], ApiKeyOrStored(environ, self.api_key))]
    /\ UNCHANGED <<self, environ, lastDelay>>

(* One pass of the loop body is two steps. Lines 103-124 build the command
   and call subprocess.run: the request is out and the thread waits, at pc
   "waiting", for up to self.timeout + 10 seconds while other threads run.
   Lines 127-169 then handle what subprocess.run ended in, up to the point
   where the pass returns, raises or calls time.sleep. *)

\* faulty variant: the URL and the token are looked up again in every pass
InvokedRereadingEnv(k) ==
    [k EXCEPT !.pc = "waiting",
              !.requests = k.requests + 1,
              !.request = Some(Command(ResolveApiUrl(environ),
                                       ResolveAuthToken(environ, self.api_key),
                                       k.payload[1], self.timeout)),
              !.outcome = None]

\* lines 103-124
Invoked(k) ==
    [k EXCEPT !.pc = "waiting",
              !.requests = k.requests + 1,
              !.request = Some(Command(k.api_url[1], k.auth_token[1],
                                       k.payload[1], self.timeout)),
              !.outcome = None]

Invoke(c) ==
    /\ call[c].pc = "attempting"
    /\ call' = [call EXCEPT ![c] = Invoked(call[c])]
    /\ UNCHANGED <<self, environ, lastDelay>>

\* lines 127-169 for outcome o
AfterAttempt(k, o) ==
    LET h     == Handler(o, k.attempt, k.max_retries)
        ended == [k EXCEPT !.outcome = Some(o)]
    IN  IF h = "return" THEN
            [ended EXCEPT !.pc = "returned", !.result = Some(ReturnedContent(o))]
        ELSE IF h = "retry_error" THEN
            [ended EXCEPT !.pc = "sleeping", !.sleeps = Append(k.sleeps, k.delay)]
        ELSE IF IsLastAttempt(k.attempt, k.max_retries) THEN
            [ended EXCEPT !.pc = "raised",
                          !.exc = Some(ErrorInfo(h, o, k.attempt, k.max_retries))]
        ELSE
            [ended EXCEPT !.pc = "sleeping", !.sleeps = Append(k.sleeps, k.delay)]

Complete(c, o) ==
    /\ call[c].pc = "waiting"
    /\ call' = [call EXCEPT ![c] = AfterAttempt(call[c], o)]
    /\ UNCHANGED <<self, environ, lastDelay>>

\* faulty variant: the loop does not advance to the next attempt number
AfterSleepSameAttempt(k) ==
    [k EXCEPT !.pc = "attempting", !.delay = NextDelay(k.delay)]

(* time.sleep returns: the delay is doubled and the for statement takes the
   next value of range(max_retries), or, when there is none, falls through to
   line 171 (lines 102, 134-135, 150, 156, 163, 169, 171). *)
AfterSleep(k) ==
    LET slept == [k EXCEPT !.delay = NextDelay(k.delay)]
    IN  IF k.attempt + 1 < k.max_retries
        THEN [slept EXCEPT !.pc = "attempting", !.attempt = k.attempt + 1]
        ELSE [slept EXCEPT !.pc = "raised", !.exc = Some(PostLoopError)]

\* faulty variant: the delay is kept on the shared client, so doubling it in
\* one call doubles it for every call in its loop
WakeUpSharedDelay(c) ==
    /\ call[c].pc = "sleeping"
    /\ call' = [d \in Callers |->
                   IF d = c THEN AfterSleep(call[c])
                   ELSE IF call[d].pc \in {"attempting", "waiting", "sleeping"}
                        THEN [call[d] EXCEPT !.delay = NextDelay(call[c].delay)]
                        ELSE call[d]]
    /\ UNCHANGED <<self, environ, lastDelay>>

WakeUp(c) ==
    /\ call[c].pc = "sleeping"
    /\ call' = [call EXCEPT ![c] = AfterSleep(call[c])]
    /\ UNCHANGED <<self, environ, lastDelay>>

(* The caller has taken the return value or the exception; the frame and its
   locals are gone. *)
Finish(c) ==
    /\ call[c].pc \in {"returned", "raised"}
    /\ lastDelay' = IF call[c].delay > 0 THEN call[c].delay ELSE lastDelay
    /\ call' = [call EXCEPT ![c] = IdleCall]
    /\ UNCHANGED <<self, environ>>

\* faulty variant: an empty token is reported as a configuration error
ValidateConfigResultChecking(env, api_key) ==
    LET auth_token == ResolveAuthToken(env, api_key)
    IN  IF auth_token = "" THEN <<FALSE, "no API key configured">> ELSE <<TRUE, "">>

(* validate_config, lines 173-187 *)
ValidateConfigResult(env, api_key) ==
    LET auth_token == ResolveAuthToken(env, api_key)
    IN  <<TRUE, "">>

ValidateConfig(c) ==
    /\ call[c].pc = "idle"
    /\ call[c].validated = None
    /\ call' = [call EXCEPT ![c].validated = Some(ValidateConfigResult(environ, self.api_key))]
    /\ UNCHANGED <<self, environ, lastDelay>>

(* The process environment is changed (os.environ[key] = value, or
   del os.environ[key]) while no chat call is running. *)
EnvValues(key) ==
    IF key = "LLM_API_URL" THEN EnvUrls
    ELSE IF key = "AUTH_TOKEN" THEN EnvAuthTokens
    ELSE EnvApiKeys

SetEnvBetweenCalls(key, value) ==
    /\ \A c \in Callers : call[c].pc = "idle"
    /\ environ[key] # value
    /\ environ' = [environ EXCEPT ![key] = value]
    /\ UNCHANGED <<self, call, lastDelay>>

Next ==
    \/ \E c \in SeqCallers, messages \in MessagesSet, kwargs \in KwargsSet :
           StartChat(c, messages, kwargs)
    \/ \E c \in SeqCallers : ReadAuthToken(c)
    \/ \E c \in SeqCallers : ReadApiKey(c)
    \/ \E c \in SeqCallers : Invoke(c)
    \/ \E c \in SeqCallers, o \in Outcomes : Complete(c, o)
    \/ \E c \in SeqCallers : WakeUp(c)
    \/ \E c \in SeqCallers : Finish(c)
    \/ \E c \in SeqCallers : ValidateConfig(c)
    \/ \E key \in DOMAIN environ : \E value \in EnvValues(key) : SetEnvBetweenCalls(key, value)

Spec == Init /\ [][Next]_vars

(* The thread of a call keeps running: it gets through the statements of
   lines 75-124, subprocess.run ends, by completing or by raising, at the
   latest when its timeout expires, and time.sleep returns. *)
Fairness ==
    \A c \in SeqCallers :
        /\ WF_vars(ReadAuthToken(c))
        /\ WF_vars(ReadApiKey(c))
        /\ WF_vars(Invoke(c))
        /\ WF_vars(\E o \in Outcomes : Complete(c, o))
        /\ WF_vars(WakeUp(c))

(* One caller, an environment that is left alone: the calls of every
   configuration, run to their end. *)
InitFair ==
    /\ environ \in {e \in Environs : e.LLM_API_URL = None /\ e.AI_API_KEY = None}
    /\ \E config \in Configs : self = Construct(config, environ)
    /\ call = [c \in Callers |-> IdleCall]
    /\ lastDelay = 0

NextFair ==
    \/ \E c \in SeqCallers, messages \in MessagesSet, kwargs \in KwargsSet :
           StartChat(c, messages, kwargs)
    \/ \E c \in SeqCallers : ReadAuthToken(c)
    \/ \E c \in SeqCallers : ReadApiKey(c)
    \/ \E c \in SeqCallers : Invoke(c)
    \/ \E c \in SeqCallers, o \in Outcomes : Complete(c, o)
    \/ \E c \in SeqCallers : WakeUp(c)
    \/ \E c \in SeqCallers : Finish(c)

SpecFair == InitFair /\ [][NextFair]_vars /\ Fairness

-----------------------------------------------------------------------------
(* Two callers share one client: chat is called from two threads, whose
   reads of the environment, subprocess.run calls and time.sleep calls
   interleave in any order; both can have a request out at once. *)

\* the inputs of the concurrent calls
ConcConfigs ==
    { NoConfig,
      [NoConfig EXCEPT !.API_KEY = Some("keyC"), !.TIMEOUT = Some(30), !.NUM_RETRIES = Some(1)] }

ConcKwargsSet ==
    { NoKwargs,
      [NoKwargs EXCEPT !.num_retries = Some(PyInt(3)), !.max_tokens = Some(PyInt(64))] }

ConcOutcomes ==
    { Raised("TimeoutExpired", ""),
      Json(Some(ErrorDict(Some("X"))), None),
      Json(None, Some(<<>>)),
      Json(None, Some(<<Choice(Some("hi there"))>>)) }

InitConc ==
    /\ environ \in {e \in Environs : e.AUTH_TOKEN # Some("tokA") /\ e.LLM_API_URL = None}
    /\ \E config \in ConcConfigs : self = Construct(config, environ)
    /\ call = [c \in Callers |-> IdleCall]
    /\ lastDelay = 0

NextConc ==
    \/ \E c \in Callers, messages \in MessagesSet, kwargs \in ConcKwargsSet :
           StartChat(c, messages, kwargs)
    \/ \E c \in Callers : ReadAuthToken(c)
    \/ \E c \in Callers : ReadApiKey(c)
    \/ \E c \in Callers : Invoke(c)
    \/ \E c \in Callers, o \in ConcOutcomes : Complete(c, o)
    \/ \E c \in Callers : WakeUp(c)
    \/ \E c \in Callers : Finish(c)

SpecConc == InitConc /\ [][NextConc]_vars

-----------------------------------------------------------------------------
(* The process environment is changed at any moment, also while a chat call
   is between lines 75 and 171 (between two of its os.getenv calls, while its
   request is out, while it sleeps): by another thread, or by a signal
   handler. *)

SetEnv(key, value) ==
    /\ environ[key] # value
    /\ environ' = [environ EXCEPT ![key] = value]
    /\ UNCHANGED <<self, call, lastDelay>>

(* What a run of curl can end in while the environment is being changed. A
   write to os.environ by another thread while subprocess.run forks and execs
   curl is a data race on the process environment: subprocess.run can then
   raise OSError (EFAULT, "Bad address"), which line 164 catches like any
   other exception. Whether it does is not determined by the program, so the
   outcome is a choice. *)
EnvOutcomes ==
    ConcOutcomes \cup { Raised("OSError", "[Errno 14] Bad address: 'curl'") }

InitEnv ==
    /\ environ \in Environs
    /\ \E config \in ConcConfigs : self = Construct(config, environ)
    /\ call = [c \in Callers |-> IdleCall]
    /\ lastDelay = 0

NextEnv ==
    \/ \E c \in SeqCallers, messages \in MessagesSet, kwargs \in ConcKwargsSet :
           StartChat(c, messages, kwargs)
    \/ \E c \in SeqCallers : ReadAuthToken(c)
    \/ \E c \in SeqCallers : ReadApiKey(c)
    \/ \E c \in SeqCallers : Invoke(c)
    \/ \E c \in SeqCallers, o \in EnvOutcomes : Complete(c, o)
    \/ \E c \in SeqCallers : WakeUp(c)
    \/ \E c \in SeqCallers : Finish(c)
    \/ \E key \in {"LLM_API_URL", "AUTH_TOKEN", "AI_API_KEY"} :
           \E value \in EnvValues(key) : SetEnv(key, value)

SpecEnv == InitEnv /\ [][NextEnv]_vars

-----------------------------------------------------------------------------
(* Vocabulary of the properties *)

\* the num_retries in force for call record k: the keyword argument when
\* given, else the stored one
NumRetriesInForce(k) ==
    IF k.kwargs[1].num_retries = None THEN self.num_retries
    ELSE k.kwargs[1].num_retries[1].v

\* call record k has read the environment (lines 75-81) and gone on
Resolved(k) == k.pc \notin {"idle", "reading_token", "reading_key"}

\* call record k got past the argument handling of lines 84-98 with a
\* num_retries >= 0
Looping(k) ==
    /\ Resolved(k)
    /\ k.exc # Some(TypeErrorRaised)
    /\ NumRetriesInForce(k) >= 0

\* the latest attempt of k ended in an outcome of the set S
LastOutcomeIn(k, S) == k.outcome # None /\ k.outcome[1] \in S

\* min(2^i, 16)
Backoff(i) == IF i >= 4 THEN 16 ELSE 2 ^ i

\* the four retryable kinds of outcome
RetryableOutcomes ==
    TransportOutcomes \cup TimeoutOutcomes \cup NonJsonOutcomes \cup ErrorPayloadOutcomes

\* content of the first choice of a reply
FirstChoiceText(o) == o.choices[1][1].message[1].content[1]

-----------------------------------------------------------------------------
(* C1: a reply that is well-formed JSON without an error member, whose choices
   are empty or whose first choice has no or empty content, makes chat fail
   on that very attempt: no backoff sleep follows it and no further attempt. *)
C1_EmptyReplyFailsAtOnce ==
    \A c \in Callers :
        LastOutcomeIn(call[c], EmptyOutcomes) =>
            /\ call[c].pc = "raised"
            /\ Len(call[c].sleeps) = call[c].requests - 1

(* C2: with num_retries n >= 0 in force (keyword argument, else stored
   value), an attempt that ends in an error payload is followed by a failure
   exactly when it is attempt n + 1; before that the call goes on, and no
   attempt n + 2 is ever made. *)
C2_ErrorPayloadsUseAllAttempts ==
    \A c \in Callers :
        LET k == call[c]
            n == NumRetriesInForce(k)
        IN  Looping(k) =>
              /\ k.requests <= n + 1
              /\ LastOutcomeIn(k, ErrorPayloadOutcomes) =>
                    /\ k.pc \in {"sleeping", "attempting", "raised"}
                    /\ (k.pc = "raised") <=> (k.requests = n + 1)
                    /\ Len(k.sleeps) = IF k.pc = "raised" THEN k.requests - 1 ELSE k.requests

C2_Witness ==
    \E c \in Callers :
        LET k == call[c]
        IN  /\ k.pc = "raised"
            /\ LastOutcomeIn(k, ErrorPayloadOutcomes)
            /\ k.kwargs[1].num_retries = Some(PyInt(3))
            /\ self.num_retries # 3
            /\ k.requests = 4
            /\ Len(k.sleeps) = 3

(* C3: within one call the k-th backoff sleep lasts min(2^k, 16) seconds, and
   the delay local has been doubled once per failed attempt: it is
   min(2^(attempt+1), 16), never below 2 and never above 16. *)
C3_BackoffSequence ==
    \A c \in Callers :
        LET k == call[c]
        IN  /\ \A i \in 1..Len(k.sleeps) : k.sleeps[i] = Backoff(i)
            /\ k.pc \in {"attempting", "waiting", "sleeping"} =>
                  /\ k.delay = Backoff(k.attempt + 1)
                  /\ k.delay >= 2 /\ k.delay <= 16
                  /\ Len(k.sleeps) = IF k.pc = "sleeping" THEN k.attempt + 1 ELSE k.attempt

C3_Witness ==
    \E c \in Callers :
        /\ call[c].sleeps = <<2, 4, 8, 16, 16>>
        /\ call[c].pc = "attempting"
        /\ call[c].delay = 16

\* what a step of caller c must be for C4
C4_RetryableStep(c) ==
    LET k  == call[c]
        k2 == call'[c]
        n  == NumRetriesInForce(k)
    IN  /\ (k.pc = "waiting" /\ k2.pc # "waiting" /\ LastOutcomeIn(k2, RetryableOutcomes)) =>
              IF k2.requests < n + 1
              THEN k2.pc = "sleeping" /\ k2.sleeps = Append(k.sleeps, k.delay) /\ k2.exc = None
              ELSE k2.pc = "raised" /\ k2.sleeps = k.sleeps /\ k2.exc # None
                   /\ k2.exc[1].type = "ValueError" /\ k2.requests = n + 1
        /\ (k.pc = "sleeping" /\ k2 # k) =>
              k2.pc = "attempting" /\ k2.attempt = k.attempt + 1 /\ k2.requests = k.requests
        /\ (k.pc = "attempting" /\ k2 # k) =>
              k2.pc = "waiting" /\ k2.requests = k.requests + 1 /\ k2.sleeps = k.sleeps

(* C4: a transport failure, a timeout, a non-JSON body and an error payload
   are treated alike: when the attempt is not attempt n + 1 the call sleeps
   for the current delay and then starts the next attempt; it raises only
   when the attempt is attempt n + 1, and then without sleeping. *)
C4_RetryableOutcomesAlike == [][\A c \in Callers : C4_RetryableStep(c)]_vars

C4_Witness ==
    \E c \in Callers :
        LET k == call[c]
        IN  /\ k.pc = "raised"
            /\ LastOutcomeIn(k, NonJsonOutcomes)
            /\ k.requests = NumRetriesInForce(k) + 1
            /\ k.requests >= 3

(* C5: an attempt, the first or one after retryable failures, whose reply has
   no error member and a non-empty first content makes chat return exactly
   that content; nothing is sent and no sleep is made after it. *)
C5_ValidReplyReturned ==
    \A c \in Callers :
        LET k == call[c]
        IN  LastOutcomeIn(k, ValidOutcomes) =>
              /\ k.pc = "returned"
              /\ k.result = Some(FirstChoiceText(k.outcome[1]))
              /\ k.exc = None
              /\ k.requests <= NumRetriesInForce(k) + 1
              /\ Len(k.sleeps) = k.requests - 1

C5_Witness ==
    \E c \in Callers :
        LET k == call[c]
        IN  /\ k.pc = "returned"
            /\ k.requests = 3
            /\ Len(k.sleeps) = 2
            /\ k.result = Some("first")

(* C6: a call that has ended has either returned a non-empty text, the first
   content of a reply without error member, or raised; it never returns the
   empty string, a default, or the content of a reply with an error member. *)
C6_TextOrFailure ==
    \A c \in Callers :
        LET k == call[c]
        IN  /\ k.pc = "returned" =>
                /\ k.exc = None
                /\ k.result # None
                /\ k.result[1] # ""
                /\ k.outcome # None
                /\ k.outcome[1].kind = "completed" /\ k.outcome[1].json
                /\ k.outcome[1].error = None
                /\ k.result[1] = FirstChoiceText(k.outcome[1])
            /\ k.pc = "raised" => k.exc # None /\ k.result = None
            /\ k.pc \notin {"returned", "raised"} => k.exc = None /\ k.result = None

C6_Witness ==
    \E c \in Callers :
        LET k == call[c]
        IN  /\ k.pc = "raised"
            /\ k.outcome # None
            /\ k.outcome[1].error # None
            /\ k.outcome[1].choices = Some(<<Choice(Some("from error reply"))>>)

\* the four sources of C7 are set, non-empty and pairwise different
C7_AllSetAndDifferent(env) ==
    /\ env.LLM_API_URL # None /\ env.AUTH_TOKEN # None /\ env.AI_API_KEY # None
    /\ env.LLM_API_URL[1] # "" /\ env.AUTH_TOKEN[1] # "" /\ env.AI_API_KEY[1] # ""
    /\ self.api_key # ""
    /\ Cardinality({env.LLM_API_URL[1], env.AUTH_TOKEN[1], env.AI_API_KEY[1], self.api_key}) = 4

(* C7: when LLM_API_URL, AUTH_TOKEN, AI_API_KEY and the config API key are
   all set, non-empty and pairwise different at the start of a call, every
   request of the call goes to the LLM_API_URL value and carries the
   AUTH_TOKEN value as its bearer token. *)
C7_OverridesWin ==
    \A c \in Callers :
        LET k == call[c]
        IN  (k.request # None /\ C7_AllSetAndDifferent(k.env0[1])) =>
              /\ k.request[1].url = k.env0[1].LLM_API_URL[1]
              /\ k.request[1].authorization = "Authorization: Bearer " \o k.env0[1].AUTH_TOKEN[1]

C7_Witness ==
    \E c \in Callers :
        LET k == call[c]
        IN  /\ k.requests = 2
            /\ C7_AllSetAndDifferent(k.env0[1])
            /\ k.request[1].url = "http://alt.example/chat"
            /\ k.request[1].authorization = "Authorization: Bearer tokA"

(* C8 as stated: with AUTH_TOKEN unset the bearer token is AI_API_KEY if set,
   otherwise the config API key if set, and the hardcoded default only when
   neither is present. *)
C8_DefaultTokenLast ==
    \A c \in Callers :
        LET k == call[c]
        IN  (Resolved(k) /\ k.env0[1].AUTH_TOKEN = None) =>
              k.auth_token[1] =
                  IF TruthyOpt(k.env0[1].AI_API_KEY) THEN k.env0[1].AI_API_KEY[1]
                  ELSE IF self.api_key # "" THEN self.api_key
                  ELSE DefaultAuthToken

(* C8 amended: the bearer token is the AUTH_TOKEN value when AUTH_TOKEN is
   set and non-empty, and the hardcoded default token whenever AUTH_TOKEN is
   unset, whatever AI_API_KEY and the stored API key are; only when
   AUTH_TOKEN is set to the empty string is it AI_API_KEY (if set and
   non-empty) and otherwise the client's stored api_key. *)
C8_DefaultTokenStandsInForAuthToken ==
    \A c \in Callers :
        LET k == call[c]
        IN  Resolved(k) =>
              LET e == k.env0[1]
                  expected ==
                      IF e.AUTH_TOKEN = None THEN DefaultAuthToken
                      ELSE IF e.AUTH_TOKEN[1] # "" THEN e.AUTH_TOKEN[1]
                      ELSE IF e.AI_API_KEY # None /\ e.AI_API_KEY[1] # "" THEN e.AI_API_KEY[1]
                      ELSE self.api_key
              IN  /\ k.auth_token = Some(expected)
                  /\ k.request # None =>
                        k.request[1].authorization = "Authorization: Bearer " \o expected

C8_Witness ==
    \E c \in Callers :
        LET k == call[c]
        IN  /\ k.request # None
            /\ k.env0[1].AUTH_TOKEN = None
            /\ k.env0[1].AI_API_KEY = Some("keyB")
            /\ self.api_key = "keyC"
            /\ k.request[1].authorization = "Authorization: Bearer " \o DefaultAuthToken

\* what a step of caller c must be for C9
C9_Step(c) ==
    LET k  == call[c]
        k2 == call'[c]
    IN  /\ (~Resolved(k) /\ Resolved(k2) /\ k2.kwargs = Some(NoKwargs)) =>
              /\ k2.payload[1].temperature = PyInt(self.temperature)
              /\ k2.payload[1].max_tokens = IF self.max_tokens > 0 THEN self.max_tokens ELSE 5000
              /\ k2.max_retries = self.num_retries + 1
        /\ (k2.requests = k.requests + 1) => k2.request[1].max_time = self.timeout

(* C9: no step changes a stored field of the client, and a call started
   without keyword arguments takes temperature, max_tokens, num_retries and
   timeout from the stored fields. *)
C9_ConfigNeverChanges ==
    [][self' = self /\ \A c \in Callers : C9_Step(c)]_vars

C9_Witness ==
    \E c \in Callers :
        LET k == call[c]
        IN  /\ k.pc = "returned"
            /\ lastDelay > 0
            /\ k.kwargs[1].num_retries = Some(PyInt(3))
            /\ k.kwargs[1].max_tokens = Some(PyInt(64))
            /\ self.num_retries = 1
            /\ self.max_tokens = 200

(* C10: nothing of an earlier call shows in a later one: a call is at attempt
   0 with delay 2 and no sleep made when it enters the loop, whatever delay
   the calls before it ended with, and from then on its delay, its number of
   sleeps and what it returns or raises are determined by its own attempts. *)
C10_NoCarryOver ==
    \A c \in Callers :
        LET k == call[c]
        IN  /\ (k.pc = "attempting" /\ k.requests = 0) =>
                k.attempt = 0 /\ k.delay = 2 /\ k.sleeps = <<>> /\ k.outcome = None
            /\ k.pc \in {"attempting", "waiting", "sleeping"} =>
                /\ k.delay = Backoff(k.attempt + 1)
                /\ k.requests = IF k.pc = "attempting" THEN k.attempt ELSE k.attempt + 1
                /\ Len(k.sleeps) = IF k.pc = "waiting" THEN k.requests - 1 ELSE k.requests
            /\ (k.pc = "raised" /\ k.requests > 0) =>
                /\ k.exc[1].attempt = k.requests
                /\ k.exc[1].total = k.max_retries
                /\ Len(k.sleeps) = k.requests - 1

C10_Witness ==
    \E c \in Callers :
        LET k == call[c]
        IN  /\ lastDelay = 16
            /\ k.pc = "attempting"
            /\ k.requests = 0
            /\ k.delay = 2

\* call record k is in a state a call running alone on the client can be in
\* after the attempts and sleeps it has made itself
C11_AsAlone(k) ==
    /\ \A i \in 1..Len(k.sleeps) : k.sleeps[i] = Backoff(i)
    /\ k.pc \in {"attempting", "waiting", "sleeping"} =>
          /\ k.delay = Backoff(k.attempt + 1)
          /\ k.requests = IF k.pc = "attempting" THEN k.attempt ELSE k.attempt + 1
          /\ Len(k.sleeps) = IF k.pc = "waiting" THEN k.requests - 1 ELSE k.requests
          /\ k.requests <= NumRetriesInForce(k) + 1
          /\ k.pc = "waiting" =>
                k.request = Some(Command(k.api_url[1], k.auth_token[1], k.payload[1],
                                         self.timeout))
    /\ k.pc = "returned" =>
          /\ k.result = Some(FirstChoiceText(k.outcome[1]))
          /\ Len(k.sleeps) = k.requests - 1
    /\ (k.pc = "raised" /\ k.requests > 0) =>
          /\ k.requests = NumRetriesInForce(k) + 1
          /\ k.exc[1].attempt = k.requests
          /\ Len(k.sleeps) = k.requests - 1

\* a step of caller c writes nothing another caller or a later call reads
C11_Frame(c) ==
    call'[c] # call[c] =>
        /\ \A d \in Callers \ {c} : call'[d] = call[d]
        /\ self' = self
        /\ environ' = environ

(* C11: with two chat calls running at once on one client, in every
   interleaving each call's attempts, backoff delays and result are those it
   has when it runs alone, and a step of one call changes neither the other
   call's state nor the client. *)
C11_ConcurrentCallsIndependent ==
    [][\A c \in Callers : C11_Frame(c) /\ C11_AsAlone(call'[c])]_vars

C11_Witness ==
    /\ call[1].pc = "sleeping"
    /\ call[1].delay = 8
    /\ call[1].requests = 3
    /\ call[2].pc = "waiting"
    /\ call[2].requests = 2
    /\ call[2].delay = 4
    /\ call[1].kwargs # call[2].kwargs

\* the except clauses of the loop body
ExceptClauses == {"CalledProcessError", "TimeoutExpired", "JSONDecodeError", "Exception"}

(* C12 as stated: whatever num_retries the config or a keyword argument
   supplies, chat never ends by the failure raised after the loop. *)
C12_PostLoopNeverRaised ==
    \A c \in Callers : call[c].exc # Some(PostLoopError)

(* C12 amended: for every num_retries >= 0 in force chat ends by returning or
   raising from inside the loop, after at least one attempt, and never by the
   failure raised after the loop; with a negative num_retries, which nothing
   rejects, the loop body never runs and chat ends by that failure without
   having made an attempt. *)
C12_PostLoopOnlyForNegativeRetries ==
    \A c \in Callers :
        LET k == call[c]
            n == NumRetriesInForce(k)
        IN  (Resolved(k) /\ k.exc # Some(TypeErrorRaised)) =>
              /\ n >= 0 =>
                    /\ k.exc # Some(PostLoopError)
                    /\ k.pc = "raised" => (k.requests >= 1 /\ k.exc[1].handler \in ExceptClauses)
                    /\ k.pc = "returned" => k.requests >= 1
              /\ n < 0 =>
                    /\ k.pc = "raised"
                    /\ k.exc = Some(PostLoopError)
                    /\ k.requests = 0
                    /\ k.sleeps = <<>>

C12_Witness ==
    \E c \in Callers :
        LET k == call[c]
        IN  /\ k.pc = "raised"
            /\ NumRetriesInForce(k) >= 3
            /\ k.requests = NumRetriesInForce(k) + 1
            /\ k.exc[1].handler = "TimeoutExpired"

(* C13: every failure of chat reaches the caller as a ValueError, also a
   failure caused by the value of a keyword argument. *)
C13_OnlyValueError ==
    \A c \in Callers :
        call[c].pc = "raised" => call[c].exc # None /\ call[c].exc[1].type = "ValueError"

\* the max_tokens in force for call record k
MaxTokensInForce(k) ==
    IF k.kwargs[1].max_tokens = None THEN self.max_tokens
    ELSE k.kwargs[1].max_tokens[1].v

(* C14: the max_tokens of the payload, and of every request, is the value in
   force (keyword argument, else stored value) when that is positive and 5000
   when it is 0 or negative; it is never 0 or negative. *)
C14_PayloadMaxTokens ==
    \A c \in Callers :
        LET k == call[c]
        IN  k.payload # None =>
              /\ k.payload[1].max_tokens =
                    IF MaxTokensInForce(k) > 0 THEN MaxTokensInForce(k) ELSE 5000
              /\ k.payload[1].max_tokens > 0
              /\ k.request # None => k.request[1].data.max_tokens = k.payload[1].max_tokens

C14_Witness ==
    \E c \in Callers :
        LET k == call[c]
        IN  /\ k.request # None
            /\ k.kwargs[1].max_tokens = None
            /\ self.max_tokens = -1
            /\ k.request[1].data.max_tokens = 5000

(* C15: every backoff sleep lies strictly between two attempts: a call that
   has ended after m >= 1 attempts has slept m - 1 times, a call that is
   sleeping has an attempt left to make, and the failure of attempt n + 1 is
   raised without a sleep before it. *)
C15_NoSleepAfterLastAttempt ==
    \A c \in Callers :
        LET k == call[c]
            n == NumRetriesInForce(k)
        IN  /\ (k.pc \in {"returned", "raised"} /\ k.requests >= 1) =>
                /\ Len(k.sleeps) = k.requests - 1
                /\ k.exc # Some(PostLoopError)
            /\ k.pc = "sleeping" =>
                /\ k.requests < n + 1
                /\ Len(k.sleeps) = k.requests
            /\ k.pc = "attempting" => Len(k.sleeps) = k.requests
            /\ k.pc = "waiting" => Len(k.sleeps) = k.requests - 1

C15_Witness ==
    \E c \in Callers :
        LET k == call[c]
        IN  /\ k.pc = "raised"
            /\ LastOutcomeIn(k, ErrorPayloadOutcomes)
            /\ k.requests = 2
            /\ NumRetriesInForce(k) = 1
            /\ k.sleeps = <<2>>

\* the upstream detail the failure for outcome o carries
C16_Detail(o) ==
    IF o \in TimeoutOutcomes THEN ""
    ELSE IF o \in ErrorPayloadOutcomes THEN
        "API call failed: " \o (IF o.error[1].message = None THEN "API returned unknown error"
                                 ELSE o.error[1].message[1])
    ELSE o.text

(* C16: the failure chat raises after its last attempt reports that attempt:
   its attempt number and its total are both n + 1, and its detail is the
   error of the last attempt's outcome, for a transport failure, a timeout, a
   non-JSON body and an error payload alike. *)
C16_LastAttemptReported ==
    \A c \in Callers :
        LET k == call[c]
            n == NumRetriesInForce(k)
        IN  (k.pc = "raised" /\ LastOutcomeIn(k, RetryableOutcomes)) =>
              /\ k.exc[1].type = "ValueError"
              /\ k.requests = n + 1
              /\ k.exc[1].attempt = n + 1
              /\ k.exc[1].total = n + 1
              /\ k.exc[1].detail = C16_Detail(k.outcome[1])

C16_Witness ==
    \E c \in Callers :
        LET k == call[c]
        IN  /\ k.pc = "raised"
            /\ k.requests = 4
            /\ k.exc[1].attempt = 4
            /\ k.exc[1].detail = "API call failed: quota"

(* C17 as stated: for every configured timeout the three limits of an attempt
   are strictly ordered, connect timeout < request timeout < call timeout. *)
C17_TimeoutsStrictlyOrdered ==
    \A c \in Callers :
        LET k == call[c]
        IN  k.request # None =>
              /\ k.request[1].connect_timeout < k.request[1].max_time
              /\ k.request[1].max_time < k.request[1].run_timeout

(* C17 amended: every attempt uses connect timeout 10, request timeout equal
   to the configured timeout and call timeout equal to the configured timeout
   + 10, so the request timeout is always below the call timeout; the connect
   timeout is below the request timeout exactly when the configured timeout
   is above 10. *)
C17_TimeoutsOfAnAttempt ==
    \A c \in Callers :
        LET k == call[c]
        IN  k.request # None =>
              /\ k.request[1].connect_timeout = 10
              /\ k.request[1].max_time = self.timeout
              /\ k.request[1].run_timeout = self.timeout + 10
              /\ k.request[1].max_time < k.request[1].run_timeout
              /\ (k.request[1].connect_timeout < k.request[1].max_time) <=> (self.timeout > 10)

C17_Witness ==
    \E c \in Callers :
        LET k == call[c]
        IN  /\ k.request # None
            /\ self.timeout = 5
            /\ k.request[1].connect_timeout = 10
            /\ k.request[1].max_time = 5
            /\ k.request[1].run_timeout = 15

RECURSIVE SumSeq(_)
SumSeq(q) == IF q = <<>> THEN 0 ELSE q[1] + SumSeq(Tail(q))

\* the longest call record k can have blocked so far: each attempt made
\* counted as its call timeout, each sleep as its delay
C18_Blocked(k) == k.requests * (self.timeout + 10) + SumSeq(k.sleeps)

\* the attempts a call with num_retries n in force can make: range(n + 1)
\* is empty for n < 0
C18_MaxAttempts(n) == IF n + 1 > 0 THEN n + 1 ELSE 0

\* what holds of the time of every call record k that got past its arguments
C18_WithinBudget(k) ==
    LET n == NumRetriesInForce(k)
    IN  (Resolved(k) /\ k.exc # Some(TypeErrorRaised)) =>
          /\ k.request # None => k.request[1].run_timeout = self.timeout + 10
          /\ k.requests <= C18_MaxAttempts(n)
          /\ \A i \in 1..Len(k.sleeps) : k.sleeps[i] <= 16
          /\ Len(k.sleeps) <= (IF n > 0 THEN n ELSE 0)
          /\ C18_Blocked(k) <= C18_MaxAttempts(n) * (self.timeout + 10) + SumSeq(k.sleeps)
          /\ C18_Blocked(k) <= C18_MaxAttempts(n) * (self.timeout + 10)
                                 + 16 * (IF n > 0 THEN n ELSE 0)

(* C18 as stated: the time a chat call has blocked, counting each attempt as
   timeout + 10 and each sleep as its delay, is at most
   (num_retries + 1) * (timeout + 10) plus the sum of its backoff delays. *)
C18_BudgetOfNumRetriesPlusOne ==
    \A c \in Callers :
        LET k == call[c]
        IN  (Resolved(k) /\ k.exc # Some(TypeErrorRaised)) =>
              C18_Blocked(k) <= (NumRetriesInForce(k) + 1) * (self.timeout + 10)
                                  + SumSeq(k.sleeps)

(* C18 amended: every chat call ends, by returning or raising, and the time
   it has blocked, counting each attempt as timeout + 10 and each sleep as
   its delay, never exceeds maxAttempts * (timeout + 10) plus the sum of its
   backoff delays, each of which is at most 16, where maxAttempts is
   num_retries + 1 when that is positive and 0 otherwise. *)
C18_TerminatesWithinBudget ==
    /\ [](\A c \in Callers : C18_WithinBudget(call[c]))
    /\ \A c \in Callers :
          (call[c].pc \notin {"idle", "returned", "raised"})
              ~> (call[c].pc \in {"returned", "raised"})

C18_Witness ==
    \E c \in Callers :
        LET k == call[c]
        IN  /\ k.pc = "raised"
            /\ k.requests = MaxNumRetries + 1
            /\ Len(k.sleeps) = MaxNumRetries
            /\ self.timeout = 120
            /\ C18_Blocked(k) = (MaxNumRetries + 1) * 130 + SumSeq(k.sleeps)

\* what a step does to the request data of caller c
C19_Step(c) ==
    LET k  == call[c]
        k2 == call'[c]
    IN  \* the URL is read once, when the call is entered, and the token once,
        \* by the reads of lines 78-80, each from the environment of its moment
        /\ (k.pc = "idle" /\ k2.pc # "idle") =>
              /\ k2.api_url = Some(ResolveApiUrl(environ))
              /\ k2.auth_token = None /\ k2.payload = None /\ k2.requests = 0
        /\ (k.auth_token = None /\ k2.auth_token # None) =>
              /\ k.pc = "reading_token" =>
                    k2.auth_token[1] = AuthTokenOrDefault(environ) /\ k2.auth_token[1] # ""
              /\ k.pc = "reading_key" =>
                    k2.auth_token[1] = ApiKeyOrStored(environ, self.api_key)
              /\ k2.requests = 0
        \* every attempt sends what the call resolved before its first
        \* attempt, which is what the attempt before it sent
        /\ k2.requests = k.requests + 1 =>
              /\ k2.request[1].url = k.api_url[1]
              /\ k2.request[1].authorization = "Authorization: Bearer " \o k.auth_token[1]
              /\ k2.request[1].data = k.payload[1]
              /\ k.request # None => k2.request = k.request
        \* a change of the environment is not a step of the call, and what the
        \* call has resolved stays as it is until the call ends
        /\ environ' # environ => k2 = k
        /\ (k.pc # "idle" /\ k2.pc # "idle") =>
              /\ k2.env0 = k.env0
              /\ k2.api_url = k.api_url
              /\ k.auth_token # None => k2.auth_token = k.auth_token
              /\ k.payload # None => k2.payload = k.payload

(* C19 as stated: a change of LLM_API_URL, AUTH_TOKEN or AI_API_KEY takes
   effect only for the calls that start after it: every request of a call
   carries the URL and the token of the environment the call was entered
   in. *)
C19_RequestsOfTheEnvironmentAtEntry ==
    \A c \in Callers :
        LET k == call[c]
        IN  k.request # None =>
              /\ k.request[1].url = ResolveApiUrl(k.env0[1])
              /\ k.request[1].authorization =
                     "Authorization: Bearer " \o ResolveAuthToken(k.env0[1], self.api_key)

(* C19 amended: a chat call reads LLM_API_URL, then AUTH_TOKEN, then (only
   when that is empty) AI_API_KEY, each once and each from the environment of
   the moment of that read, and builds the payload once, all before its first
   attempt; every attempt of the call sends the identical request, whatever
   changes of the environment happen while a request is out or during a
   backoff sleep. A change made after the call was entered and before the
   read of that variable does take effect for the call. *)
C19_ResolvedOncePerCall == [][\A c \in Callers : C19_Step(c)]_vars

C19_Witness ==
    \E c \in Callers :
        LET k == call[c]
        IN  /\ k.requests >= 2
            /\ k.pc = "waiting"
            /\ k.request[1].url = ResolveApiUrl(k.env0[1])
            /\ k.request[1].authorization #
                   "Authorization: Bearer " \o ResolveAuthToken(k.env0[1], self.api_key)
            /\ k.request[1].url # ResolveApiUrl(environ)
            /\ k.request[1].authorization #
                   "Authorization: Bearer " \o ResolveAuthToken(environ, self.api_key)

\* what a step that returns from validate_config to caller c does
C20_Step(c) ==
    LET k  == call[c]
        k2 == call'[c]
    IN  (k2.validated # k.validated /\ k2.validated # None) =>
          /\ k2.validated = Some(<<TRUE, "">>)
          /\ k2 = [k EXCEPT !.validated = k2.validated]
          /\ self' = self
          /\ environ' = environ
          /\ \A d \in Callers \ {c} : call'[d] = call[d]

(* C20: validate_config returns (True, "") whatever the configuration and
   the environment are, also when AUTH_TOKEN is the empty string and neither
   AI_API_KEY nor a configured API key is present, and it changes nothing of
   the client. *)
C20_ValidateConfigAlwaysTrue == [][\A c \in Callers : C20_Step(c)]_vars

C20_Witness ==
    \E c \in Callers :
        /\ call[c].validated = Some(<<TRUE, "">>)
        /\ environ.AUTH_TOKEN = Some("")
        /\ environ.AI_API_KEY = None
        /\ self.api_key = ""
        /\ ResolveAuthToken(environ, self.api_key) = ""

====
